---- MODULE Spec2Model ----
(***************************************************************************)
(* A model of equation-fuzzer.cpp: class EquationFuzzer<NumNumbers> (the   *)
(* corpus, mutate, the condition filter, numStructToDiff, the loop of      *)
(* Fuzz) and the exprtk evaluator it calls.                                *)
(*                                                                         *)
(* A double that holds a variable's value is an integer count of 1/Scale   *)
(* (fixed point); the result of an evaluation is a record that is a finite *)
(* number, an infinity or NaN, with the comparison rules of IEEE 754.      *)
(* Under Spec every draw from prng is a nondeterministic choice over the   *)
(* outcomes of its distribution and the state of the engine is left out.   *)
(* Under SpecRepro two runs of the same inputs are stepped side by side,   *)
(* each drawing from its own engine.                                       *)
(***************************************************************************)
EXTENDS Integers, Sequences, FiniteSets, TLC

\* Bounds of the model.
Scale == 2      \* a value is a multiple of 1/Scale
MaxMag == 1     \* unifDouble(-100, 100) is narrowed to [-MaxMag, MaxMag)
MaxVal == 3     \* a perturbation step is explored while |value| <= MaxVal
MaxIter == 2    \* a cycle is started while iter < MaxIter
MaxCycles == 4  \* cycles of a run whose draws come from the engine (SpecRepro)
MaxCompiles == 3  \* a cycle is started while no text was compiled more often (SpecCompile)

\* Steps of the inner loop of mutate: for (size_t j = 0; j < 3; j++).
MutateSteps == 3

-----------------------------------------------------------------------------
(* Doubles that result from an evaluation. *)

Num(v) == [k |-> "num", v |-> v]
Inf(s) == [k |-> "inf", v |-> s]
NaN == [k |-> "nan", v |-> 0]
Unset == [k |-> "unset", v |-> 0]

Zero == Num(0)
One == Num(Scale)

Sign(v) == IF v > 0 THEN 1 ELSE IF v < 0 THEN -1 ELSE 0

\* x < y on doubles: false whenever an operand is NaN.
Lt(x, y) ==
    IF x.k = "nan" \/ y.k = "nan" THEN FALSE
    ELSE IF x.k = "inf" THEN x.v < 0 /\ ~(y.k = "inf" /\ y.v < 0)
    ELSE IF y.k = "inf" THEN y.v > 0
    ELSE x.v < y.v

Gt(x, y) == Lt(y, x)

\* x == y on doubles: false whenever an operand is NaN.
Eq(x, y) == x.k # "nan" /\ y.k # "nan" /\ x = y

\* x - y on doubles.
Sub(x, y) ==
    IF x.k = "nan" \/ y.k = "nan" THEN NaN
    ELSE IF x.k = "inf" THEN (IF y.k = "inf" /\ y.v = x.v THEN NaN ELSE x)
    ELSE IF y.k = "inf" THEN Inf(-y.v)
    ELSE Num(x.v - y.v)

\* std::abs on doubles.
Abs(x) ==
    IF x.k = "nan" THEN NaN
    ELSE IF x.k = "inf" THEN Inf(1)
    ELSE Num(IF x.v < 0 THEN -x.v ELSE x.v)

\* x / y on doubles, for the quotients the catalogue of expressions needs.
Div(x, y) ==
    IF x.k # "num" \/ y.k # "num" THEN NaN
    ELSE IF y.v = 0 THEN (IF x.v = 0 THEN NaN ELSE Inf(Sign(x.v)))
    ELSE IF x.v = y.v THEN One
    ELSE IF x.v = 0 THEN Zero
    ELSE NaN

-----------------------------------------------------------------------------
(* The evaluator: exprtk's parser and expression, on a catalogue of texts. *)

BadText == "a+"

\* A condition that one assignment of four variables satisfies.
PinText == "(a==1)and(b==0)and(c==-1)and(d==0)"

\* The texts of the catalogue: "a", "0", "1", "5", "a+b", "a>0", "a/a", "a/0",
\* PinText, and BadText, which has no right operand.

\* The indices of the variables a text uses ('a' + numIndex names slot numIndex).
VarsOf(e) ==
    CASE e \in {"a", "a>0", "a/a", "a/0"} -> {0}
      [] e = "a+b" -> {0, 1}
      [] e = PinText -> {0, 1, 2, 3}
      [] OTHER -> {}

\* parser.compile: the text is well formed and every symbol it uses is one of
\* the NumNumbers variables of the symbol table.
compile(e, N) == e # BadText /\ \A i \in VarsOf(e) : i < N

\* expression.value() with the variables bound to ns.
value(e, ns) ==
    CASE e = "a" -> Num(ns[1])
      [] e = "0" -> Zero
      [] e = "1" -> One
      [] e = "5" -> Num(5 * Scale)
      [] e = "a+b" -> Num(ns[1] + ns[2])
      [] e = "a>0" -> (IF ns[1] > 0 THEN One ELSE Zero)
      [] e = "a/a" -> Div(Num(ns[1]), Num(ns[1]))
      [] e = "a/0" -> Div(Num(ns[1]), Zero)
      [] e = PinText ->
            (IF ns[1] = Scale /\ ns[2] = 0 /\ ns[3] = -Scale /\ ns[4] = 0
             THEN One ELSE Zero)
      [] OTHER -> NaN

-----------------------------------------------------------------------------
(* The inputs of a run: the template argument and the constructor's.       *)

Config(N, e1, e2, cs, r) ==
    [N |-> N, expr1 |-> e1, expr2 |-> e2, conditions |-> cs, round |-> r]

Configs ==
    { Config(1, "a", "0", << >>, TRUE),
      Config(1, "a", "0", << >>, FALSE),
      Config(2, "a+b", "5", <<"a>0">>, TRUE),
      Config(1, "a", "0", <<"0">>, TRUE),
      Config(1, BadText, "0", <<"0">>, TRUE),
      Config(1, "a", BadText, << >>, TRUE),
      Config(1, "a", "0", <<"a>0", BadText>>, TRUE),
      Config(1, "a+b", "0", << >>, TRUE),
      Config(1, "a/a", "1", << >>, TRUE),
      Config(1, "a/0", "0", << >>, TRUE) }

\* Runs of four variables, for the steps of mutate (SpecMutate).
MutateConfigs ==
    { Config(4, "a", "0", <<PinText>>, TRUE),
      Config(4, "a", "0", <<PinText>>, FALSE) }

-----------------------------------------------------------------------------
VARIABLES
    NumNumbers,  \* the template argument
    round,       \* const bool round
    conditions,  \* const std::vector<std::string> conditions
    expr1,       \* const std::string expr1
    expr2,       \* const std::string expr2
    iter,        \* size_t iter
    corpus,      \* std::vector<NumStruct> corpus
    diff,        \* boost::optional<double> diff, local to Fuzz
    ns,          \* the NumStruct ns of mutate, then of Fuzz
    base,        \* the element getStatic returned to mutate
    j,           \* the loop counter of mutate
    pc,          \* the position of the process
    out,         \* what was written to std::cout, one record per report
    prng,        \* std::default_random_engine prng (tracked under SpecRepro)
    twin,        \* a second run of the same inputs (stepped under SpecRepro)
    compiles,    \* parser.compile calls so far, per text (counted under SpecCompile)
    ret          \* double ret of getRandomDouble (tracked under SpecMutate)

consts == <<NumNumbers, round, conditions, expr1, expr2>>
vars == <<NumNumbers, round, conditions, expr1, expr2,
          iter, corpus, diff, ns, base, j, pc, out, prng, twin, compiles, ret>>

\* corpus.push_back({}): a NumStruct of NumNumbers zeros.
ZeroStruct(N) == [i \in 1..N |-> 0]

\* Variant: the engine is seeded from a source of entropy.
SeedsFromEntropy == {1, 2, 3}

\* The states of prng after construction: the member is default-constructed
\* and the constructor does not seed it, so it holds default_seed.
Seeds == {1}

\* A run after construction, as a record.
RunInit(N, seed) ==
    [corpus |-> <<ZeroStruct(N)>>, ns |-> ZeroStruct(N), base |-> ZeroStruct(N),
     iter |-> 0, diff |-> Unset, j |-> 0, pc |-> "mutate", out |-> << >>,
     prng |-> seed, cycles |-> 0]

\* The texts of a run.
Texts(c) == {c.expr1, c.expr2} \cup {c.conditions[i] : i \in DOMAIN c.conditions}

InitWith(inputs) ==
    /\ \E c \in inputs :
        /\ NumNumbers = c.N
        /\ round = c.round
        /\ conditions = c.conditions
        /\ expr1 = c.expr1
        /\ expr2 = c.expr2
        /\ corpus = <<ZeroStruct(c.N)>>
        /\ ns = ZeroStruct(c.N)
        /\ base = ZeroStruct(c.N)
        /\ \E seed \in Seeds : twin = RunInit(c.N, seed)
        /\ compiles = [e \in Texts(c) |-> 0]
    /\ prng \in Seeds
    /\ ret = 0
    /\ iter = 0
    /\ diff = Unset
    /\ j = 0
    /\ pc = "mutate"
    /\ out = << >>

Init == InitWith(Configs)

-----------------------------------------------------------------------------
(* The random source and mutate. *)

\* The outcomes of unifSizeT(prng) % n.
unifSizeTMod(n) == 0..(n - 1)

\* The outcomes of unifDouble(prng): uniform_real_distribution over [a, b).
unifDouble == (-MaxMag * Scale)..(MaxMag * Scale - 1)

\* Variant: the loop body runs once, whatever was drawn.
retAcceptedAny(x) == TRUE

\* getRandomDouble: while ( !ret ) ends once ret is not zero.
retAccepted(x) == x # 0

\* getRandomDouble: a draw of zero is drawn again.
getRandomDouble == {r \in unifDouble : retAccepted(r)}

\* std::modf(x, &z): the fractional part of x, with the sign of x.
modf(x) == IF x >= 0 THEN x % Scale ELSE -((-x) % Scale)

\* Variant: the truncation sits inside case 0 of the switch only.
mutateStepRoundInCase0(s, whichNum, whichMutator, r, rnd) ==
    LET moved == IF whichMutator = 0 THEN s[whichNum + 1] + r
                 ELSE s[whichNum + 1] - r
    IN  [s EXCEPT ![whichNum + 1] =
            IF rnd /\ whichMutator = 0 THEN moved - modf(moved) ELSE moved]

\* Variant: the step also writes the slot after whichNum.
mutateStepTwoSlots(s, whichNum, whichMutator, r, rnd) ==
    LET moved == IF whichMutator = 0 THEN s[whichNum + 1] + r
                 ELSE s[whichNum + 1] - r
        after == ((whichNum + 1) % Len(s)) + 1
    IN  [s EXCEPT ![whichNum + 1] = IF rnd THEN moved - modf(moved) ELSE moved,
                  ![after] = IF rnd THEN moved - modf(moved) ELSE moved]

\* One pass of the body of mutate's loop on struct s.
mutateStep(s, whichNum, whichMutator, r, rnd) ==
    LET moved == IF whichMutator = 0 THEN s[whichNum + 1] + r
                 ELSE s[whichNum + 1] - r
    IN  [s EXCEPT ![whichNum + 1] = IF rnd THEN moved - modf(moved) ELSE moved]

\* getStatic: corpus[unifSizeT(prng) % corpus.size()].
getStatic(c, u) == c[u + 1]

InRange(s) == \A i \in DOMAIN s : -(MaxVal * Scale) <= s[i] /\ s[i] <= MaxVal * Scale

-----------------------------------------------------------------------------
(* calc, the condition test and numStructToDiff. *)

\* Variant: the test reads == 1.0f.
conditionFailedInverted(C, s) == Eq(value(C, s), One)

\* calc(C, ns) != 1.0f, for a condition that compiles.
conditionFailed(C, s) == ~Eq(value(C, s), One)

\* Variant: doContinue is never consulted, so only a compile failure stops.
firstStopCompileOnly(cs, s, N) ==
    LET stops == {i \in 1..Len(cs) : ~compile(cs[i], N)}
    IN  IF stops = {} THEN 0
        ELSE CHOOSE i \in stops : \A k \in stops : i <= k

\* Variant: every condition is compiled before any is evaluated.
firstStopNoShortCircuit(cs, s, N) ==
    LET bad == {i \in 1..Len(cs) : ~compile(cs[i], N)}
        stops == {i \in 1..Len(cs) : conditionFailed(cs[i], s)}
    IN  IF bad # {} THEN CHOOSE i \in bad : \A k \in bad : i <= k
        ELSE IF stops = {} THEN 0
        ELSE CHOOSE i \in stops : \A k \in stops : i <= k

\* The first condition at which the loop over conditions stops (its text does
\* not compile, or its value is not 1.0), 0 when every condition passes.
firstStop(cs, s, N) ==
    LET stops == {i \in 1..Len(cs) : ~compile(cs[i], N) \/ conditionFailed(cs[i], s)}
    IN  IF stops = {} THEN 0
        ELSE CHOOSE i \in stops : \A k \in stops : i <= k

\* numStructToDiff: std::abs(res1 > res2 ? res1 - res2 : res2 - res1).
numStructToDiff(res1, res2) ==
    Abs(IF Gt(res1, res2) THEN Sub(res1, res2) ELSE Sub(res2, res1))

\* Variant: curDiff <= *diff, so a tie is accepted.
AcceptsTies(d, curDiff) == d = Unset \/ (d # Unset /\ (Lt(curDiff, d) \/ Eq(curDiff, d)))

\* Variant: !(curDiff > *diff), so a tie or a NaN is accepted.
AcceptsNotGreater(d, curDiff) == d = Unset \/ (d # Unset /\ ~Gt(curDiff, d))

\* !diff || (diff && curDiff < *diff)
Accepts(d, curDiff) == d = Unset \/ (d # Unset /\ Lt(curDiff, d))

\* Variant: iter++ sits in calc, which numStructToDiff calls twice.
iterAfterDiffPerCalc(i) == i + 2

\* numStructToDiff: iter++
iterAfterDiff(i) == i + 1

\* Variant: a tolerance of one unit instead of exact equality.
IsSolutionWithin(d) == Lt(d, One)

\* *diff == 0.0f
IsSolution(d) == Eq(d, Zero)

\* Variant: only the best candidate is kept beside the seed.
push_backKeepBest(c, s) == <<c[1], s>>

\* Variant: the candidate is inserted at the front.
push_backFront(c, s) == <<s>> \o c

\* corpus.push_back(ns)
push_back(c, s) == Append(c, s)

\* What calc prints before exit(1).
ErrorReport(e) == [t |-> "error", Expression |-> e]

\* Variant: the line shows the size the corpus had before the append.
ProgressReportBeforeAppend(n, corp, s, res1, res2, d) ==
    [t |-> "progress", N |-> n, Corp |-> corp - 1, Vars |-> s,
     Res1 |-> res1, Res2 |-> res2, Diff |-> d]

\* The line printed for an accepted candidate.
ProgressReport(n, corp, s, res1, res2, d) ==
    [t |-> "progress", N |-> n, Corp |-> corp, Vars |-> s,
     Res1 |-> res1, Res2 |-> res2, Diff |-> d]

\* The block printed when the difference is 0.
SolutionReport(e1, e2, cs, s) ==
    [t |-> "solution", expr1 |-> e1, expr2 |-> e2, conditions |-> cs, Vars |-> s]

-----------------------------------------------------------------------------
(* The steps of Fuzz. *)

\* mutate, up to its loop: NumStruct ns = getStatic().
Sample(u) ==
    /\ pc = "mutate"
    /\ iter < MaxIter
    /\ ns' = getStatic(corpus, u)
    /\ base' = getStatic(corpus, u)
    /\ j' = 0
    /\ pc' = "perturb"
    /\ UNCHANGED <<consts, iter, corpus, diff, out>>

\* One pass of mutate's loop; after the last one mutate returns ns.
Perturb(whichNum, whichMutator, r) ==
    /\ pc = "perturb"
    /\ j < MutateSteps
    /\ ns' = mutateStep(ns, whichNum, whichMutator, r, round)
    /\ InRange(ns')
    /\ j' = j + 1
    /\ pc' = IF j + 1 < MutateSteps THEN "perturb" ELSE "conditions"
    /\ UNCHANGED <<consts, iter, corpus, diff, base, out>>

\* The loop over conditions: calc(C, ns) != 1.0f.
TestConditions ==
    /\ pc = "conditions"
    /\ LET i == firstStop(conditions, ns, NumNumbers) IN
        IF i = 0
        THEN /\ pc' = "score"
             /\ out' = out
        ELSE IF ~compile(conditions[i], NumNumbers)
        THEN /\ pc' = "exit1"
             /\ out' = Append(out, ErrorReport(conditions[i]))
        ELSE /\ pc' = "mutate"
             /\ out' = out
    /\ UNCHANGED <<consts, iter, corpus, diff, ns, base, j>>

\* numStructToDiff and the decision that follows it.
Score ==
    /\ pc = "score"
    /\ IF ~compile(expr1, NumNumbers)
       THEN /\ pc' = "exit1"
            /\ out' = Append(out, ErrorReport(expr1))
            /\ UNCHANGED <<iter, corpus, diff>>
       ELSE IF ~compile(expr2, NumNumbers)
       THEN /\ pc' = "exit1"
            /\ out' = Append(out, ErrorReport(expr2))
            /\ UNCHANGED <<iter, corpus, diff>>
       ELSE LET res1 == value(expr1, ns)
                res2 == value(expr2, ns)
                curDiff == numStructToDiff(res1, res2)
            IN  /\ iter' = iterAfterDiff(iter)
                /\ IF Accepts(diff, curDiff)
                   THEN /\ corpus' = push_back(corpus, ns)
                        /\ diff' = curDiff
                        /\ LET line == ProgressReport(iter', Len(corpus'),
                                                      ns, res1, res2, curDiff)
                           IN  IF IsSolution(curDiff)
                               THEN /\ out' = out \o <<line,
                                          SolutionReport(expr1, expr2, conditions, ns)>>
                                    /\ pc' = "done"
                               ELSE /\ out' = Append(out, line)
                                    /\ pc' = "mutate"
                   ELSE /\ pc' = "mutate"
                        /\ UNCHANGED <<corpus, diff, out>>
    /\ UNCHANGED <<consts, ns, base, j>>

Next ==
    \/ /\ \E u \in unifSizeTMod(Len(corpus)) : Sample(u)
       /\ UNCHANGED <<prng, twin, compiles, ret>>
    \/ /\ \E whichNum \in unifSizeTMod(NumNumbers), whichMutator \in unifSizeTMod(2),
             r \in getRandomDouble : Perturb(whichNum, whichMutator, r)
       /\ UNCHANGED <<prng, twin, compiles, ret>>
    \/ TestConditions /\ UNCHANGED <<prng, twin, compiles, ret>>
    \/ Score /\ UNCHANGED <<prng, twin, compiles, ret>>

Spec == Init /\ [][Next]_vars

-----------------------------------------------------------------------------
(* Two runs side by side, every draw taken from the engine.                *)

\* One call of the engine: minstd_rand0, x' = 16807 * x mod (2^31 - 1),
\* computed without leaving 32 bits. The new state is also the number drawn.
engine(x) ==
    LET t == 16807 * (x % 127773) - 2836 * (x \div 127773)
    IN  IF t < 0 THEN t + 2147483647 ELSE t

\* unifSizeT(prng) % n, for the engine state x after the call.
sizeTOf(x, n) == x % n

\* unifDouble(prng), for the engine state x after the call.
doubleOf(x) == -(MaxMag * Scale) + (x % (2 * MaxMag * Scale))

\* getRandomDouble from engine state x: the magnitude returned and the state
\* of the engine after the calls it took.
RECURSIVE drawDouble(_)
drawDouble(x) ==
    LET x1 == engine(x)
    IN  IF doubleOf(x1) = 0 THEN drawDouble(x1) ELSE [ret |-> doubleOf(x1), prng |-> x1]

\* The three draws of one pass of mutate's loop from engine state x.
drawPass(x) ==
    LET x1 == engine(x)
        x2 == engine(x1)
        d == drawDouble(x2)
    IN  [whichNum |-> sizeTOf(x1, NumNumbers), whichMutator |-> sizeTOf(x2, 2),
         r |-> d.ret, prng |-> d.prng]

\* The step of Fuzz on the record t of a run.
RunNext(t) ==
    CASE t.pc = "mutate" ->
            LET x == engine(t.prng)
                s == getStatic(t.corpus, sizeTOf(x, Len(t.corpus)))
            IN  [t EXCEPT !.ns = s, !.base = s, !.j = 0, !.pc = "perturb",
                          !.prng = x, !.cycles = @ + 1]
      [] t.pc = "perturb" ->
            LET d == drawPass(t.prng)
            IN  [t EXCEPT !.ns = mutateStep(@, d.whichNum, d.whichMutator, d.r, round),
                          !.j = @ + 1,
                          !.pc = IF t.j + 1 < MutateSteps THEN "perturb" ELSE "conditions",
                          !.prng = d.prng]
      [] t.pc = "conditions" ->
            LET i == firstStop(conditions, t.ns, NumNumbers)
            IN  IF i = 0 THEN [t EXCEPT !.pc = "score"]
                ELSE IF ~compile(conditions[i], NumNumbers)
                THEN [t EXCEPT !.pc = "exit1",
                               !.out = Append(@, ErrorReport(conditions[i]))]
                ELSE [t EXCEPT !.pc = "mutate"]
      [] t.pc = "score" ->
            IF ~compile(expr1, NumNumbers)
            THEN [t EXCEPT !.pc = "exit1", !.out = Append(@, ErrorReport(expr1))]
            ELSE IF ~compile(expr2, NumNumbers)
            THEN [t EXCEPT !.pc = "exit1", !.out = Append(@, ErrorReport(expr2))]
            ELSE LET res1 == value(expr1, t.ns)
                     res2 == value(expr2, t.ns)
                     curDiff == numStructToDiff(res1, res2)
                     line == ProgressReport(iterAfterDiff(t.iter), Len(push_back(t.corpus, t.ns)),
                                            t.ns, res1, res2, curDiff)
                 IN  IF ~Accepts(t.diff, curDiff)
                     THEN [t EXCEPT !.iter = iterAfterDiff(@), !.pc = "mutate"]
                     ELSE IF IsSolution(curDiff)
                     THEN [t EXCEPT !.iter = iterAfterDiff(@), !.corpus = push_back(@, t.ns),
                                    !.diff = curDiff, !.pc = "done",
                                    !.out = @ \o <<line, SolutionReport(expr1, expr2,
                                                                       conditions, t.ns)>>]
                     ELSE [t EXCEPT !.iter = iterAfterDiff(@), !.corpus = push_back(@, t.ns),
                                    !.diff = curDiff, !.pc = "mutate",
                                    !.out = Append(@, line)]
      [] OTHER -> t

ReproSample ==
    /\ twin.cycles < MaxCycles
    /\ Sample(sizeTOf(engine(prng), Len(corpus)))
    /\ prng' = engine(prng)
    /\ twin' = RunNext(twin)
    /\ UNCHANGED <<compiles, ret>>

ReproPerturb ==
    /\ LET d == drawPass(prng)
       IN  /\ Perturb(d.whichNum, d.whichMutator, d.r)
           /\ prng' = d.prng
    /\ twin' = RunNext(twin)
    /\ UNCHANGED <<compiles, ret>>

ReproTestConditions ==
    TestConditions /\ prng' = prng /\ twin' = RunNext(twin) /\ UNCHANGED <<compiles, ret>>

ReproScore ==
    Score /\ prng' = prng /\ twin' = RunNext(twin) /\ UNCHANGED <<compiles, ret>>

NextRepro == ReproSample \/ ReproPerturb \/ ReproTestConditions \/ ReproScore

SpecRepro == Init /\ [][NextRepro]_vars

-----------------------------------------------------------------------------
(* The calls of parser.compile: calc builds a parser and compiles its text  *)
(* on every call.                                                          *)

\* The texts the loop over conditions passes to calc for struct s: the
\* conditions up to the one at which the loop stops.
conditionCalls(cs, s, N) ==
    LET i == firstStop(cs, s, N)
    IN  SubSeq(cs, 1, IF i = 0 THEN Len(cs) ELSE i)

\* The texts numStructToDiff passes to calc: expr2 only if expr1 compiled.
diffCalls(e1, e2, N) == IF compile(e1, N) THEN <<e1, e2>> ELSE <<e1>>

\* The counts after calc was called with each of texts.
countCompiles(c, texts) ==
    [e \in DOMAIN c |-> c[e] + Cardinality({k \in DOMAIN texts : texts[k] = e})]

CompileSample ==
    /\ \A e \in DOMAIN compiles : compiles[e] < MaxCompiles
    /\ \E u \in unifSizeTMod(Len(corpus)) : Sample(u)
    /\ UNCHANGED <<prng, twin, compiles, ret>>

CompilePerturb ==
    /\ \E whichNum \in unifSizeTMod(NumNumbers), whichMutator \in unifSizeTMod(2),
          r \in getRandomDouble : Perturb(whichNum, whichMutator, r)
    /\ UNCHANGED <<prng, twin, compiles, ret>>

CompileTestConditions ==
    /\ TestConditions
    /\ compiles' = countCompiles(compiles, conditionCalls(conditions, ns, NumNumbers))
    /\ UNCHANGED <<prng, twin, ret>>

CompileScore ==
    /\ Score
    /\ compiles' = countCompiles(compiles, diffCalls(expr1, expr2, NumNumbers))
    /\ UNCHANGED <<prng, twin, ret>>

NextCompile == CompileSample \/ CompilePerturb \/ CompileTestConditions \/ CompileScore

SpecCompile == Init /\ [][NextCompile]_vars

-----------------------------------------------------------------------------
(* mutate with the loop of getRandomDouble as steps of its own.            *)

\* mutate, up to its loop; ret is 0 when getRandomDouble is entered.
MutateSample ==
    /\ \E u \in unifSizeTMod(Len(corpus)) : Sample(u)
    /\ ret' = 0
    /\ UNCHANGED <<prng, twin, compiles>>

\* getRandomDouble, one pass of its loop: ret = unifDouble(prng).
Draw ==
    /\ pc = "perturb"
    /\ ~retAccepted(ret)
    /\ ret' \in unifDouble
    /\ UNCHANGED <<consts, iter, corpus, diff, ns, base, j, pc, out, prng, twin, compiles>>

\* One pass of mutate's loop with the magnitude getRandomDouble returned.
PerturbDrawn ==
    /\ retAccepted(ret)
    /\ \E whichNum \in unifSizeTMod(NumNumbers), whichMutator \in unifSizeTMod(2) :
          Perturb(whichNum, whichMutator, ret)
    /\ ret' = 0
    /\ UNCHANGED <<prng, twin, compiles>>

NextMutate ==
    \/ MutateSample
    \/ Draw
    \/ PerturbDrawn
    \/ TestConditions /\ UNCHANGED <<prng, twin, compiles, ret>>
    \/ Score /\ UNCHANGED <<prng, twin, compiles, ret>>

InitMutate == InitWith(MutateConfigs)

SpecMutate == InitMutate /\ [][NextMutate]_vars

-----------------------------------------------------------------------------
(* Properties. *)

Last(q) == q[Len(q)]
Integral(s) == \A i \in DOMAIN s : s[i] % Scale = 0
Accepted == Cardinality({i \in DOMAIN out : out[i].t = "progress"})
AnyCompileFailure ==
    \/ ~compile(expr1, NumNumbers)
    \/ ~compile(expr2, NumNumbers)
    \/ \E i \in DOMAIN conditions : ~compile(conditions[i], NumNumbers)

\* The scenarios of the specification.
IsImmediate == NumNumbers = 1 /\ expr1 = "a" /\ expr2 = "0" /\ conditions = << >>
IsGuarded ==
    /\ NumNumbers = 2 /\ expr1 = "a+b" /\ expr2 = "5"
    /\ conditions = <<"a>0">> /\ round = TRUE
IsStarved == \E i \in DOMAIN conditions : conditions[i] = "0"

\* C1, as stated: in the immediate-termination scenario the first assignment
\* evaluated is the zero seed and Fuzz terminates on the first cycle, whatever
\* the random choices are.
C1_SeedEvaluatedFirst ==
    IsImmediate =>
        /\ (pc = "score" /\ iter = 0 => ns = ZeroStruct(1))
        /\ (iter >= 1 => pc = "done" /\ iter = 1)

\* C1, amended: in the immediate-termination scenario the first assignment
\* evaluated is the seed after the three perturbation steps of mutate; it is
\* always accepted; Fuzz terminates on the first cycle exactly when that
\* candidate has a = 0, and whenever Fuzz terminates it reports a = 0.
C1_MutatedSeedEvaluatedFirst ==
    IsImmediate =>
        /\ (pc = "score" /\ iter = 0 => base = ZeroStruct(1) /\ j = MutateSteps)
        /\ (iter >= 1 =>
              /\ Len(corpus) >= 2
              /\ (corpus[2] = ZeroStruct(1) <=> (pc = "done" /\ iter = 1)))
        /\ (pc = "done" =>
              /\ Last(out).t = "solution"
              /\ Last(out).Vars = ZeroStruct(1))

C1_Witness == IsImmediate /\ pc = "done" /\ iter = 1 /\ Last(out).Vars = ZeroStruct(1)

\* C2, as stated: when expr1, expr2 or a condition does not compile, no
\* candidate is sampled, mutated, filtered or evaluated.
C2_NoCycleOnCompileFailure ==
    AnyCompileFailure => pc \notin {"perturb", "conditions", "score"}

\* The candidate passed every condition and its difference is exactly 0.
ZeroScored ==
    /\ pc = "score"
    /\ compile(expr1, NumNumbers)
    /\ compile(expr2, NumNumbers)
    /\ Eq(numStructToDiff(value(expr1, ns), value(expr2, ns)), Zero)

\* C3, as stated: a cycle whose candidate passes the conditions and has a
\* difference of exactly 0 ends Fuzz in that cycle, whatever was evaluated
\* before, and no other cycle ends it.
C3_ZeroDifferenceTerminates ==
    [][/\ ZeroScored => pc' = "done"
       /\ (pc # "done" /\ pc' = "done") => ZeroScored]_vars

\* C4: the corpus is never empty and holds 1 + k elements after k accepted
\* improvements (one progress line is printed per acceptance).
C4_CorpusSize == Len(corpus) >= 1 /\ Len(corpus) = 1 + Accepted

C4_Witness == Len(corpus) = 3 /\ Accepted = 2 /\ pc = "mutate"

\* C5: the best difference never returns to unset and every update of it,
\* after the first, replaces it by a strictly smaller value.
C5_StrictlyDecreasing ==
    [][/\ diff # Unset => diff' # Unset
       /\ (diff # Unset /\ (diff' # diff \/ Len(corpus') # Len(corpus)))
             => Lt(diff', diff)]_vars

C5_Witness == Len(corpus) = 3 /\ Lt(out[2].Diff, out[1].Diff) /\ diff = out[2].Diff

\* C6: when Fuzz returns, the reported assignment is the candidate mutate
\* returned, every condition evaluates to 1.0 on it and expr1 equals expr2 on
\* it; in the guarded-search scenario no accepted element is the zero seed, and
\* at termination a is a positive integer, b is integral and a + b = 5.
C6_WitnessSatisfies ==
    /\ pc = "done" =>
          LET w == Last(out).Vars IN
          /\ w = ns /\ j = MutateSteps /\ w = Last(corpus)
          /\ \A i \in DOMAIN conditions : value(conditions[i], w) = One
          /\ Eq(value(expr1, w), value(expr2, w))
    /\ IsGuarded =>
          /\ \A i \in 2..Len(corpus) : corpus[i] # ZeroStruct(2)
          /\ pc = "done" =>
                LET w == Last(out).Vars IN
                /\ w[1] > 0 /\ w[1] % Scale = 0 /\ w[2] % Scale = 0
                /\ w[1] + w[2] = 5 * Scale

C6_Witness == IsGuarded /\ pc = "done"

\* C7: with a condition that evaluates to 0.0 on every assignment nothing is
\* ever accepted: the corpus keeps its one element, the best difference stays
\* unset, the iteration counter stays 0 and Fuzz does not return.
C7_Starvation ==
    IsStarved =>
        /\ Len(corpus) = 1 /\ diff = Unset /\ iter = 0
        /\ pc \notin {"score", "done"} /\ out = << >>

C7_Witness == IsStarved /\ pc = "mutate" /\ j = MutateSteps /\ ns # base

\* C8: in round mode every value of the struct mutate works on and returns,
\* touched or inherited, and every value of every corpus element is integral.
C8_RoundMode ==
    round => Integral(ns) /\ \A i \in DOMAIN corpus : Integral(corpus[i])

C8_Witness ==
    /\ round /\ NumNumbers = 2 /\ pc = "conditions"
    /\ Len(corpus) >= 2 /\ base = corpus[2]
    /\ ns[1] # base[1] /\ ns[2] = base[2] /\ ns[2] # 0

C10_AppendOnly ==
    [][/\ Len(corpus') >= Len(corpus)
       /\ Len(corpus') <= Len(corpus) + 1
       /\ \A i \in DOMAIN corpus : corpus'[i] = corpus[i]
       /\ corpus'[1] = ZeroStruct(NumNumbers)
       /\ pc \in {"mutate", "perturb", "conditions"} => corpus' = corpus]_vars

C10_Witness ==
    /\ Len(corpus) = 3 /\ corpus[1] = ZeroStruct(NumNumbers)
    /\ corpus[2] = out[1].Vars /\ corpus[3] = out[2].Vars
    /\ corpus[2] # corpus[1] /\ corpus[3] # corpus[2]

\* The candidate passed every condition and both expressions compile, so the
\* step taken is the one that computes its difference.
Scoring == pc = "score" /\ compile(expr1, NumNumbers) /\ compile(expr2, NumNumbers)
CurDiff == numStructToDiff(value(expr1, ns), value(expr2, ns))

\* C11: a candidate that passed all conditions is accepted (appended, made the
\* best difference, reported) iff the best difference is unset or its
\* difference is strictly less; otherwise the corpus, the best difference and
\* the output stay as they are and only the iteration counter advances.
C11_StrictImprovementOnly ==
    [][Scoring =>
         IF diff = Unset \/ Lt(CurDiff, diff)
         THEN /\ corpus' = Append(corpus, ns)
              /\ diff' = CurDiff
              /\ Len(out') > Len(out)
         ELSE /\ corpus' = corpus /\ diff' = diff /\ out' = out
              /\ iter' = iter + 1 /\ pc' = "mutate"]_vars

C11_Witness ==
    /\ pc = "mutate" /\ iter = 2 /\ Len(corpus) = 2 /\ Len(out) = 1
    /\ compile(expr1, NumNumbers) /\ compile(expr2, NumNumbers)
    /\ Eq(CurDiff, diff)

Ge(x, y) == Gt(x, y) \/ Eq(x, y)

\* C12, as stated: the best difference is unset or a value d with d >= 0,
\* whatever the two expressions evaluate to.
C12_BestDifferenceNonNegative == diff = Unset \/ Ge(diff, Zero)

\* C13: the iteration counter advances by exactly one in a step that computes
\* a candidate's difference and in no other step, so it never decreases and is
\* at least the corpus size minus 1; whether that step accepts and whether it
\* ends Fuzz is decided by the two differences alone.
C13_IterationCounter ==
    /\ [][/\ Scoring => iter' = iter + 1
          /\ ~Scoring => iter' = iter
          /\ Scoring => /\ (corpus' # corpus <=> (diff = Unset \/ Lt(CurDiff, diff)))
                        /\ (pc' = "done" <=>
                              (Eq(CurDiff, Zero) /\ (diff = Unset \/ Lt(CurDiff, diff))))
         ]_vars
    /\ [](iter >= Len(corpus) - 1)

C13_Witness == iter = 2 /\ Len(corpus) = 2 /\ pc = "mutate" /\ j = MutateSteps

\* C14, as stated: no text of the run (expr1, expr2, a condition) is compiled
\* more than once.
C14_CompiledAtMostOnce == \A e \in DOMAIN compiles : compiles[e] <= 1

Min(a, b) == IF a < b THEN a ELSE b
Changed == {i \in DOMAIN ns : ns[i] # base[i]}

\* C15: mutate makes exactly 3 passes, each writing one slot: the struct it
\* works on and returns has NumNumbers values, as has every corpus element,
\* and differs from the sampled element in at most min(3, NumNumbers) slots
\* (at most one more per pass); a pass is always possible, and the struct
\* reaches the condition test only after the third.
C15_MutateTouchesAtMostThree ==
    /\ DOMAIN ns = 1..NumNumbers
    /\ \A k \in DOMAIN corpus : DOMAIN corpus[k] = 1..NumNumbers
    /\ Cardinality(Changed) <= Min(j, NumNumbers)
    /\ Cardinality(Changed) <= Min(MutateSteps, NumNumbers)
    /\ pc \in {"conditions", "score"} => j = MutateSteps
    /\ pc = "perturb" => j < MutateSteps /\ ENABLED (Draw \/ PerturbDrawn)

C15_Witness ==
    /\ NumNumbers = 4 /\ pc = "conditions" /\ Len(corpus) = 2 /\ base = corpus[2]
    /\ Changed = {1, 2, 4} /\ ns[3] = base[3] /\ base[3] # 0

UnifEnd == MaxMag * Scale

\* C16, as stated: every magnitude a pass of mutate uses is nonzero and lies
\* strictly between the two ends of the distribution.
C16_MagnitudeInOpenInterval ==
    [][j' = j + 1 => ret # 0 /\ -UnifEnd < ret /\ ret < UnifEnd]_vars

\* C16, amended: every magnitude a pass of mutate uses is nonzero and lies in
\* the half-open interval from the lower end, included, to the upper end,
\* excluded; while ret is zero no pass is made.
C16_MagnitudeInHalfOpenInterval ==
    [][/\ j' = j + 1 => ret # 0 /\ -UnifEnd <= ret /\ ret < UnifEnd
       /\ (pc = "perturb" /\ ret = 0) => (j' = j /\ ns' = ns)]_vars

C16_Witness ==
    /\ pc = "perturb" /\ j = 1 /\ ret = 0 /\ ~round
    /\ \E i \in DOMAIN ns : ns[i] - base[i] = -UnifEnd

PassesUpTo(s, n) ==
    \A k \in 1..n : /\ compile(conditions[k], NumNumbers)
                     /\ Eq(value(conditions[k], s), One)
Passes(s) == PassesUpTo(s, Len(conditions))

\* C17: the loop over conditions stops at the first condition, in order, that
\* does not compile or whose value is not exactly 1.0, and later conditions
\* are not reached; expr1 and expr2 are evaluated only for a candidate on
\* which every condition evaluated to exactly 1.0. So every corpus element but
\* the first satisfies every condition, while the first stays the unchecked
\* zero seed and can be sampled in every cycle.
C17_ConditionsGateScoring ==
    /\ [](/\ pc = "score" => Passes(ns)
          /\ \A i \in 2..Len(corpus) : Passes(corpus[i])
          /\ corpus[1] = ZeroStruct(NumNumbers)
          /\ (pc = "mutate" /\ iter < MaxIter) => ENABLED Sample(0))
    /\ [][/\ iter' # iter => pc = "score" /\ Passes(ns)
          /\ (pc = "conditions" /\ pc' = "score") => Passes(ns)
          /\ (pc = "conditions" /\ pc' = "mutate") =>
                \E i \in DOMAIN conditions :
                    /\ PassesUpTo(ns, i - 1)
                    /\ compile(conditions[i], NumNumbers)
                    /\ ~Eq(value(conditions[i], ns), One)
                    /\ out' = out /\ iter' = iter /\ corpus' = corpus
          /\ (pc = "conditions" /\ pc' = "exit1") =>
                \E i \in DOMAIN conditions :
                    /\ PassesUpTo(ns, i - 1)
                    /\ ~compile(conditions[i], NumNumbers)
                    /\ out' = Append(out, ErrorReport(conditions[i]))]_vars

C17_Witness ==
    /\ IsGuarded /\ Len(corpus) >= 2 /\ pc = "perturb" /\ j = 0
    /\ base = corpus[1] /\ ~Passes(corpus[1]) /\ Passes(corpus[2])

Progress(q) == {k \in DOMAIN q : q[k].t = "progress"}
Solutions(q) == {k \in DOMAIN q : q[k].t = "solution"}

\* C18: every acceptance adds exactly one progress line, printed after the
\* append and the update of diff: the line shows the new corpus size, which is
\* 1 + the number of progress lines up to it, the candidate appended and the
\* difference stored, and the iteration counts of the lines strictly increase.
\* The solution block is printed at most once, directly after a progress line
\* with difference 0 for the same struct, and is the last thing printed.
C18_ReportOrdering ==
    /\ [](/\ \A k \in Progress(out) :
                out[k].Corp = 1 + Cardinality({i \in Progress(out) : i <= k})
          /\ \A k, l \in Progress(out) : k < l => out[k].N < out[l].N
          /\ Progress(out) # {} =>
                LET k == CHOOSE m \in Progress(out) : \A i \in Progress(out) : i <= m
                IN  /\ out[k].Corp = Len(corpus) /\ out[k].Vars = Last(corpus)
                    /\ out[k].Diff = diff /\ out[k].N <= iter
          /\ Cardinality(Solutions(out)) <= 1
          /\ \A k \in Solutions(out) :
                /\ k = Len(out) /\ k > 1 /\ pc = "done"
                /\ out[k - 1].t = "progress" /\ Eq(out[k - 1].Diff, Zero)
                /\ out[k - 1].Vars = out[k].Vars
          /\ pc = "done" => Solutions(out) # {})
    /\ [][/\ Len(out') >= Len(out) /\ SubSeq(out', 1, Len(out)) = out
          /\ Len(corpus') = Len(corpus) + 1 <=>
                Cardinality(Progress(out')) = Cardinality(Progress(out)) + 1
          /\ Len(corpus') = Len(corpus) =>
                Progress(out') = Progress(out) /\ Solutions(out') = Solutions(out)
          /\ Len(corpus') \in {Len(corpus), Len(corpus) + 1}]_vars

C18_Witness ==
    /\ pc = "done" /\ Len(out) = 3 /\ Len(corpus) = 3
    /\ out[1].t = "progress" /\ out[1].N = 1 /\ out[1].Corp = 2
    /\ out[2].t = "progress" /\ out[2].N = 2 /\ out[2].Corp = 3
    /\ out[3].t = "solution"

====
